---- MODULE Spec2Model ----
(***************************************************************************)
(* A model of src/index.js: the credential rotator (getNextKey), the link  *)
(* validator (isTikTokUrl), the provider registry (API_PROVIDERS and each  *)
(* provider's extract), the fetch orchestrator (fetchViaProviders) and the *)
(* text handler (bot.on('text')) with its progress frames.                 *)
(*                                                                         *)
(* Text is a sequence of tokens (groups of characters); a payload is a     *)
(* record of the fields the extract functions probe.                       *)
(***************************************************************************)
EXTENDS Integers, Sequences, FiniteSets, TLC

\* ------------------------------------------------------------------ bounds

\* Longest RAPIDAPI_KEYS list (comma-separated items) of the rotator runs.
MaxPool == 3
\* Number of sequential getNextKey calls of the rotator runs.
MaxCalls == 7
\* Number of extract calls on one payload of the extract runs.
MaxExtractCalls == 2

\* ------------------------------------------------------ startup configuration

\* The absent value: undefined / null / a missing field.
Absent == "<absent>"

\* JavaScript truthiness of a string-or-absent value (!x is ~Truthy(x)).
Truthy(x) == x # Absent /\ x # ""

\* a || b
Or(a, b) == IF Truthy(a) THEN a ELSE b

\* String.prototype.trim on one comma-separated item of RAPIDAPI_KEYS.
TrimItem(k) ==
    CASE k = " "    -> ""
      [] k = " k1"  -> "k1"
      [] k = "k2 "  -> "k2"
      [] k = " k3 " -> "k3"
      [] OTHER      -> k

\* The items a raw RAPIDAPI_KEYS value splits into are drawn from these.
RawItems == {"", " ", "k1", " k1", "k2 "}

RECURSIVE FilterBoolean(_)
\* Array.prototype.filter(Boolean): drops the empty strings.
FilterBoolean(s) ==
    IF s = <<>> THEN <<>>
    ELSE IF Truthy(Head(s)) THEN <<Head(s)>> \o FilterBoolean(Tail(s))
         ELSE FilterBoolean(Tail(s))

\* (process.env.RAPIDAPI_KEYS || '').split(',').map(trim).filter(Boolean),
\* on the value already split at its commas ('' splits into one empty item).
ParseKeys(raw) == FilterBoolean([i \in 1..Len(raw) |-> TrimItem(raw[i])])

\* Every raw list of 1..n items.
RawLists(n) == UNION {[1..m -> RawItems] : m \in 1..n}

\* The raw RAPIDAPI_KEYS values of the handler runs.
EnvKeyLists ==
    {<<"">>, <<" k1", "", "k2 ", " k3 ">>}

\* ------------------------------------------------------------- the validator

Space == " "

\* toLowerCase / the case folding of the i flag and of the URL parser.
Lower(tok) ==
    CASE tok = "HTTPS://"   -> "https://"
      [] tok = "WWW."       -> "www."
      [] tok = "TikTok.com" -> "tiktok.com"
      [] OTHER              -> tok

LowerSeq(s) == [i \in 1..Len(s) |-> Lower(s[i])]

\* (www\.)?(m\.)?(vm\.)? starting at token i: the index after the groups.
\* Each group is greedy; no token of one group starts another.
AfterSubs(s, i) ==
    LET a == IF i <= Len(s) /\ Lower(s[i]) = "www." THEN i + 1 ELSE i
        b == IF a <= Len(s) /\ Lower(s[a]) = "m." THEN a + 1 ELSE a
        c == IF b <= Len(s) /\ Lower(s[b]) = "vm." THEN b + 1 ELSE b
    IN  c

RECURSIVE RunEnd(_, _)
\* [^\s]+ is greedy: the last index of the run of non-space tokens from i.
RunEnd(s, i) ==
    IF i < Len(s) /\ s[i + 1] # Space THEN RunEnd(s, i + 1) ELSE i

\* TIKTOK_REGEX matched at token i: the index of the match's last token, or 0.
MatchAt(s, i) ==
    IF i > Len(s) \/ Lower(s[i]) \notin {"http://", "https://"} THEN 0
    ELSE LET d == AfterSubs(s, i + 1)
         IN  IF d + 2 <= Len(s) /\ Lower(s[d]) = "tiktok.com" /\ s[d + 1] = "/"
                /\ s[d + 2] # Space
             THEN RunEnd(s, d + 2)
             ELSE 0

\* TIKTOK_REGEX.test(text)
RegexTest(s) == \E i \in 1..Len(s) : MatchAt(s, i) # 0

\* text.match(TIKTOK_REGEX)[0]: the leftmost match (the regex is not global).
RegexMatch(s) ==
    LET i == CHOOSE k \in 1..Len(s) :
                 MatchAt(s, k) # 0 /\ \A m \in 1..(k - 1) : MatchAt(s, m) = 0
    IN  SubSeq(s, i, MatchAt(s, i))

RECURSIVE HostEnd(_, _)
\* The index of the last token of the authority: before the first "/".
HostEnd(s, i) ==
    IF i < Len(s) /\ s[i + 1] # "/" THEN HostEnd(s, i + 1) ELSE i

\* new URL(m): throws when m has no scheme; else the hostname is the tokens
\* between the scheme and the first "/", lower-cased by the parser.
URLParse(m) ==
    IF m = <<>> \/ Lower(m[1]) \notin {"http://", "https://"}
    THEN [throws |-> TRUE, hostname |-> <<>>]
    ELSE [throws |-> FALSE, hostname |-> LowerSeq(SubSeq(m, 2, HostEnd(m, 1)))]

ALLOWED_DOMAINS ==
    {<<"tiktok.com">>, <<"www.", "tiktok.com">>, <<"m.", "tiktok.com">>,
     <<"vm.", "tiktok.com">>}

isTikTokUrl(text) ==
    IF ~RegexTest(text) THEN FALSE
    ELSE LET url == URLParse(RegexMatch(text))
         IN  IF url.throws THEN FALSE
             ELSE LowerSeq(url.hostname) \in ALLOWED_DOMAINS

RECURSIVE TrimLeft(_)
TrimLeft(s) == IF s # <<>> /\ Head(s) = Space THEN TrimLeft(Tail(s)) ELSE s

RECURSIVE TrimRight(_)
TrimRight(s) ==
    IF s # <<>> /\ s[Len(s)] = Space THEN TrimRight(SubSeq(s, 1, Len(s) - 1))
    ELSE s

\* (ctx.message?.text || '').trim()
Trim(s) == TrimRight(TrimLeft(s))

\* ------------------------------------------------------ the provider registry

\* A decoded response body, as the fields the extract functions probe:
\* data.play, data.wmplay, play, data.title, title, data.author.nickname,
\* author. A field that is missing (or a body that is no object) is Absent.
Payload(dplay, dwmplay, play, dtitle, title, dnick, author) ==
    [dplay |-> dplay, dwmplay |-> dwmplay, play |-> play, dtitle |-> dtitle,
     title |-> title, dnick |-> dnick, author |-> author]

\* extract's "no result".
Null == [isNull |-> TRUE, videoUrl |-> Absent, title |-> Absent, author |-> Absent]

Normalized(videoUrl, title, author) ==
    [isNull |-> FALSE, videoUrl |-> videoUrl, title |-> title, author |-> author]

\* A bug: the author's nickname is not read.
extract1NoNickname(data) ==
    LET play == data.dplay
    IN  IF ~Truthy(play) THEN Null
        ELSE Normalized(play, Or(data.dtitle, "TikTok Video"), "Unknown")

\* API_PROVIDERS[0].extract
extract1(data) ==
    LET play == data.dplay
    IN  IF ~Truthy(play) THEN Null
        ELSE Normalized(play, Or(data.dtitle, "TikTok Video"),
                        Or(data.dnick, "Unknown"))

\* A bug: the second provider's extract has no fallback literals.
extract2NoDefaults(data) ==
    LET play == Or(Or(data.dplay, data.dwmplay), data.play)
    IN  IF ~Truthy(play) THEN Null
        ELSE Normalized(play, Or(data.dtitle, data.title),
                        Or(data.dnick, data.author))

\* API_PROVIDERS[1].extract
extract2(data) ==
    LET play == Or(Or(data.dplay, data.dwmplay), data.play)
    IN  IF ~Truthy(play) THEN Null
        ELSE Normalized(play, Or(Or(data.dtitle, data.title), "TikTok Video"),
                        Or(Or(data.dnick, data.author), "Unknown"))

\* The registry, in its order: name and request shape of each provider.
API_PROVIDERS ==
    <<[name |-> "RapidAPI-1",
       url |-> "https://tiktok-video-no-watermark2.p.rapidapi.com/",
       host |-> "tiktok-video-no-watermark2.p.rapidapi.com",
       method |-> "GET", paramKey |-> "url", timeout |-> 15000],
      [name |-> "RapidAPI-2",
       url |-> "https://tiktok-video-no-watermark.p.rapidapi.com/",
       host |-> "tiktok-video-no-watermark.p.rapidapi.com",
       method |-> "GET", paramKey |-> "url", timeout |-> 15000]>>

\* A bug: every provider's response is read in the first provider's shape.
ExtractFirstShape(p, data) == extract1(data)

\* provider.extract(res.data) of the p-th provider.
Extract(p, data) == IF p = 1 THEN extract1(data) ELSE extract2(data)

\* --------------------------------------------------------------- the inputs

\* The two inbound text messages whose handlers may overlap.
Handlers == {"m1", "m2"}

\* The texts of the inbound messages.
InboundTexts ==
    {<<"https://", "vm.", "tiktok.com", "/", "ZMabc123/">>,
     <<" ", "check", " ", "https://", "www.", "tiktok.com", "/", "@x/video/1">>,
     <<"see", " ", "https://", "evil", "tiktok.com", "/", "video">>}

\* The response bodies a provider may answer with.
Payloads ==
    {Payload("http://x/video.mp4", Absent, Absent, "T", Absent, "A", Absent),
     Payload(Absent, Absent, "http://y/top.mp4", Absent, Absent, Absent, "B"),
     Payload(Absent, Absent, Absent, "T", Absent, Absent, Absent)}

\* What axios.request(req) settles with: it throws (network error, timeout,
\* non-2xx), or resolves with a response whose data is a payload.
NoData == Payload(Absent, Absent, Absent, Absent, Absent, Absent, Absent)
Threw == [settled |-> TRUE, threw |-> TRUE, data |-> NoData]
Responded(d) == [settled |-> TRUE, threw |-> FALSE, data |-> d]

Responses == {Threw} \cup {Responded(d) : d \in Payloads}

\* An attempt whose HTTP call has not settled yet.
Pending == [settled |-> FALSE, threw |-> FALSE, data |-> NoData]

\* ----------------------------------------------------------------- the state

VARIABLES
    phase,          \* "running", or "aborted" when a startup check threw
    BOT_TOKEN, WEBHOOK_URL,
    RAPIDAPI_KEYS,  \* the credential pool
    keyIndex,       \* the rotation cursor
    drawn,          \* history: the keys getNextKey returned, in call order
    pc,             \* where each handler is suspended
    text,           \* the handler's trimmed text
    frame,          \* simulatedProgress: the number of frame edits issued
    videoUrl,       \* fetchViaProviders' argument
    prov,           \* fetchViaProviders: the index of the provider in flight
    attempts,       \* history: the requests issued by the handler's resolve
    result,         \* what fetchViaProviders settled with
    status,         \* the last text other than a frame put in the status message
    swallowed,      \* a frame edit failed and .catch(() => {}) swallowed it
    chat,           \* the other messages delivered to the user, in order
    escaped,        \* the handler's promise rejected (an unhandled error)
    arg, ret        \* input and output of a run of one pure function

vars ==
    <<phase, BOT_TOKEN, WEBHOOK_URL, RAPIDAPI_KEYS, keyIndex, drawn, pc, text,
      frame, videoUrl, prov, attempts, result, status, swallowed, chat, escaped,
      arg, ret>>

rotatorVars == <<keyIndex, drawn>>
configVars == <<phase, BOT_TOKEN, WEBHOOK_URL, RAPIDAPI_KEYS>>
pureVars == <<arg, ret>>
handlerVars ==
    <<pc, text, frame, videoUrl, prov, attempts, result, status, swallowed,
      chat, escaped>>

\* fetchViaProviders has not settled / returned r / threw.
Fail ==
    [ok |-> FALSE, provider |-> Absent, videoUrl |-> Absent, title |-> Absent,
     author |-> Absent]
Success(name, n) ==
    [ok |-> TRUE, provider |-> name, videoUrl |-> n.videoUrl, title |-> n.title,
     author |-> n.author]
NoResult == [state |-> "none", value |-> Fail]
Returned(r) == [state |-> "returned", value |-> r]
Thrown == [state |-> "threw", value |-> Fail]

NotCalled == [done |-> FALSE, value |-> FALSE]

\* The number of frames of simulatedProgress (frames.length).
FRAMES == 5

\* The texts the handler shows.
WARNING == "Please send a valid *tiktok.com* link."
LOADING == "*Fetching your video...*"
SENDING == "Sending your video..."
ALL_FAILED == "All providers failed."
ERROR_TEXT == "Error. Try again."

\* The status message: not sent yet.
NoStatus == Absent

\* A message of its own: a text reply, or the video with its caption.
TextMsg(t) == [kind |-> "text", body |-> <<t>>]
VideoMsg(r) ==
    [kind |-> "video", body |-> <<r.videoUrl, r.title, r.author, r.provider>>]

\* A bug: the check of the credential pool is missing.
StartupNoPoolCheck(tok, url, raw) ==
    /\ BOT_TOKEN = tok
    /\ WEBHOOK_URL = url
    /\ RAPIDAPI_KEYS = ParseKeys(raw)
    /\ phase = IF ~Truthy(tok) \/ ~Truthy(url) THEN "aborted" ELSE "running"
    /\ keyIndex = 0
    /\ drawn = <<>>
    /\ pc = [h \in Handlers |-> "idle"]
    /\ text = [h \in Handlers |-> <<>>]
    /\ frame = [h \in Handlers |-> 0]
    /\ videoUrl = [h \in Handlers |-> <<>>]
    /\ prov = [h \in Handlers |-> 0]
    /\ attempts = [h \in Handlers |-> <<>>]
    /\ result = [h \in Handlers |-> NoResult]
    /\ status = [h \in Handlers |-> NoStatus]
    /\ swallowed = [h \in Handlers |-> FALSE]
    /\ chat = [h \in Handlers |-> <<>>]
    /\ escaped = [h \in Handlers |-> FALSE]

\* The state after the module-level code ran with this environment: each
\* missing value throws, in the order of the checks.
Startup(tok, url, raw) ==
    /\ BOT_TOKEN = tok
    /\ WEBHOOK_URL = url
    /\ RAPIDAPI_KEYS = ParseKeys(raw)
    /\ phase = IF ~Truthy(tok) \/ ~Truthy(url) \/ Len(ParseKeys(raw)) = 0
               THEN "aborted" ELSE "running"
    /\ keyIndex = 0
    /\ drawn = <<>>
    /\ pc = [h \in Handlers |-> "idle"]
    /\ text = [h \in Handlers |-> <<>>]
    /\ frame = [h \in Handlers |-> 0]
    /\ videoUrl = [h \in Handlers |-> <<>>]
    /\ prov = [h \in Handlers |-> 0]
    /\ attempts = [h \in Handlers |-> <<>>]
    /\ result = [h \in Handlers |-> NoResult]
    /\ status = [h \in Handlers |-> NoStatus]
    /\ swallowed = [h \in Handlers |-> FALSE]
    /\ chat = [h \in Handlers |-> <<>>]
    /\ escaped = [h \in Handlers |-> FALSE]

Tokens == {"", "123:abc"}
BaseUrls == {"", "https://app.example"}

Init ==
    /\ \E tok \in Tokens, url \in BaseUrls, raw \in EnvKeyLists :
           Startup(tok, url, raw)
    /\ arg = <<>>
    /\ ret = NotCalled

\* ---------------------------------------------------------------- the rotator

\* A bug: the cursor is advanced before it is read.
CurrentKeyAfterIncrement ==
    RAPIDAPI_KEYS[((keyIndex + 1) % Len(RAPIDAPI_KEYS)) + 1]

\* RAPIDAPI_KEYS[keyIndex % RAPIDAPI_KEYS.length]
CurrentKey == RAPIDAPI_KEYS[(keyIndex % Len(RAPIDAPI_KEYS)) + 1]

\* A bug: the cursor is read, the caller is suspended, and the cursor is
\* advanced later: a draw returns the entry the draw before it returned.
getNextKeyStaleRead ==
    /\ keyIndex' = keyIndex + 1
    /\ drawn' = Append(drawn,
           RAPIDAPI_KEYS[((IF keyIndex > 0 THEN keyIndex - 1 ELSE 0)
                          % Len(RAPIDAPI_KEYS)) + 1])

\* getNextKey(): returns CurrentKey and advances the cursor.
getNextKey ==
    /\ keyIndex' = keyIndex + 1
    /\ drawn' = Append(drawn, CurrentKey)

\* ----------------------------------------------------------- the orchestrator

\* The handler's catch block: editMessageText(... 'Error. Try again.') is
\* issued and awaited.
HandlerCatch(h) == pc' = [pc EXCEPT ![h] = "error_edit"]

\* A bug: returning from fetchViaProviders rewinds the cursor.
ReturnFromFetchResets(h, r, hist) ==
    /\ result' = [result EXCEPT ![h] = Returned(r)]
    /\ pc' = [pc EXCEPT ![h] = IF r.ok THEN "sending_edit" ELSE "fail_edit"]
    /\ attempts' = [attempts EXCEPT ![h] = hist]
    /\ keyIndex' = 0
    /\ UNCHANGED <<prov, drawn>>

\* fetchViaProviders returns r; the handler goes on to its next await: the
\* 'All providers failed' edit, or the 'Sending your video' edit.
ReturnFromFetch(h, r, hist) ==
    /\ result' = [result EXCEPT ![h] = Returned(r)]
    /\ pc' = [pc EXCEPT ![h] = IF r.ok THEN "sending_edit" ELSE "fail_edit"]
    /\ attempts' = [attempts EXCEPT ![h] = hist]
    /\ UNCHANGED <<prov, rotatorVars>>

\* A bug: every call rotates on a cursor of its own, so that the requests of
\* one call always carry consecutive pool entries.
StartProviderOwnCursor(h, p, link, hist) ==
    /\ getNextKey
    /\ prov' = [prov EXCEPT ![h] = p]
    /\ attempts' = [attempts EXCEPT ![h] =
           Append(hist, [provider |-> API_PROVIDERS[p].name,
                         key |-> RAPIDAPI_KEYS[(Len(hist) % Len(RAPIDAPI_KEYS)) + 1],
                         idx |-> keyIndex,
                         paramKey |-> API_PROVIDERS[p].paramKey,
                         param |-> link,
                         resp |-> Pending])]
    /\ pc' = [pc EXCEPT ![h] = "http"]
    /\ UNCHANGED result

\* A bug: buildHeaders draws two credentials for one request.
StartProviderDrawsTwice(h, p, link, hist) ==
    /\ keyIndex' = keyIndex + 2
    /\ drawn' = Append(Append(drawn, CurrentKey), CurrentKey)
    /\ prov' = [prov EXCEPT ![h] = p]
    /\ attempts' = [attempts EXCEPT ![h] =
           Append(hist, [provider |-> API_PROVIDERS[p].name,
                         key |-> CurrentKey,
                         idx |-> keyIndex,
                         paramKey |-> API_PROVIDERS[p].paramKey,
                         param |-> link,
                         resp |-> Pending])]
    /\ pc' = [pc EXCEPT ![h] = "http"]
    /\ UNCHANGED result

\* One turn of the loop up to its await: buildHeaders draws a credential,
\* the request carries link under paramKey, axios.request is issued.
StartProvider(h, p, link, hist) ==
    /\ getNextKey
    /\ prov' = [prov EXCEPT ![h] = p]
    /\ attempts' = [attempts EXCEPT ![h] =
           Append(hist, [provider |-> API_PROVIDERS[p].name,
                         key |-> CurrentKey,
                         idx |-> keyIndex,
                         paramKey |-> API_PROVIDERS[p].paramKey,
                         param |-> link,
                         resp |-> Pending])]
    /\ pc' = [pc EXCEPT ![h] = "http"]
    /\ UNCHANGED result

\* A bug: the loop gives up after the provider in flight.
NextProviderGivesUp(h, hist) == ReturnFromFetch(h, Fail, hist)

\* A bug: a provider that failed is tried once more before the loop goes on.
NextProviderRetries(h, hist) ==
    IF Len(hist) <= Len(API_PROVIDERS)
    THEN StartProvider(h, IF Len(hist) = 1 THEN 1 ELSE 2, videoUrl[h], hist)
    ELSE ReturnFromFetch(h, Fail, hist)

\* The loop goes on to the next provider; after the last one the function
\* returns {ok:false}.
NextProvider(h, hist) ==
    IF prov[h] < Len(API_PROVIDERS)
    THEN StartProvider(h, prov[h] + 1, videoUrl[h], hist)
    ELSE ReturnFromFetch(h, Fail, hist)

\* A bug: the error of a provider is not caught and leaves fetchViaProviders;
\* the handler's catch block runs.
RethrowProviderError(h, hist) ==
    /\ result' = [result EXCEPT ![h] = Thrown]
    /\ HandlerCatch(h)
    /\ attempts' = [attempts EXCEPT ![h] = hist]
    /\ UNCHANGED <<prov, rotatorVars>>

\* catch (e) { /* try next provider */ }
CatchProviderError(h, hist) == NextProvider(h, hist)

\* A bug: a successful extraction does not return; the loop goes on.
AfterExtractNoReturn(h, normalized, hist) == NextProvider(h, hist)

\* if (normalized?.videoUrl) return {ok: true, provider: provider.name,
\* ...normalized}; else the loop goes on.
AfterExtract(h, normalized, hist) ==
    IF ~normalized.isNull /\ Truthy(normalized.videoUrl)
    THEN ReturnFromFetch(h, Success(API_PROVIDERS[prov[h]].name, normalized), hist)
    ELSE NextProvider(h, hist)

\* The response of the provider in flight, recorded in the history.
Settle(h, r) == [attempts[h] EXCEPT ![Len(attempts[h])].resp = r]

\* axios.request settles: on a throw the catch block runs; else extract is
\* applied to the response's data.
HttpDone(h, r) ==
    /\ phase = "running"
    /\ UNCHANGED swallowed
    /\ pc[h] = "http"
    /\ IF r.threw
       THEN CatchProviderError(h, Settle(h, r))
       ELSE AfterExtract(h, Extract(prov[h], r.data), Settle(h, r))
    /\ UNCHANGED <<configVars, pureVars, text, frame, videoUrl, status, chat, escaped>>

\* ---------------------------------------------------------------- the handler

\* A bug: the validation result is inverted.
OnTextInverted(h, t) ==
    /\ phase = "running"
    /\ UNCHANGED swallowed
    /\ pc[h] = "idle"
    /\ h = "m2" => pc["m1"] # "idle"
    /\ text' = [text EXCEPT ![h] = Trim(t)]
    /\ pc' = [pc EXCEPT ![h] = IF isTikTokUrl(Trim(t)) THEN "warn" ELSE "loading"]
    /\ UNCHANGED <<configVars, rotatorVars, pureVars, frame, videoUrl, prov,
                   attempts, result, status, chat, escaped>>

\* bot.on('text') up to its first await: the text is trimmed and validated;
\* the warning reply is issued and returned, or the loading reply is issued.
\* The handlers are named in the order their messages arrive.
OnText(h, t) ==
    /\ phase = "running"
    /\ UNCHANGED swallowed
    /\ pc[h] = "idle"
    /\ h = "m2" => pc["m1"] # "idle"
    /\ text' = [text EXCEPT ![h] = Trim(t)]
    /\ pc' = [pc EXCEPT ![h] = IF ~isTikTokUrl(Trim(t)) THEN "warn" ELSE "loading"]
    /\ UNCHANGED <<configVars, rotatorVars, pureVars, frame, videoUrl, prov,
                   attempts, result, status, chat, escaped>>

\* The warning reply settles; the handler's promise settles with it.
WarnDone(h, ok) ==
    /\ phase = "running"
    /\ UNCHANGED swallowed
    /\ pc[h] = "warn"
    /\ pc' = [pc EXCEPT ![h] = "done"]
    /\ chat' = [chat EXCEPT ![h] = IF ok THEN Append(@, TextMsg(WARNING)) ELSE @]
    /\ escaped' = [escaped EXCEPT ![h] = ~ok]
    /\ UNCHANGED <<configVars, rotatorVars, pureVars, text, frame, videoUrl,
                   prov, attempts, result, status>>

\* The loading reply settles. It is awaited outside the try block: a failure
\* rejects the handler's promise. Else simulatedProgress issues its first edit.
LoadingDone(h, ok) ==
    /\ phase = "running"
    /\ UNCHANGED swallowed
    /\ pc[h] = "loading"
    /\ IF ok
       THEN /\ status' = [status EXCEPT ![h] = LOADING]
            /\ frame' = [frame EXCEPT ![h] = 1]
            /\ pc' = [pc EXCEPT ![h] = "frame_edit"]
            /\ UNCHANGED escaped
       ELSE /\ escaped' = [escaped EXCEPT ![h] = TRUE]
            /\ pc' = [pc EXCEPT ![h] = "done"]
            /\ UNCHANGED <<status, frame>>
    /\ UNCHANGED <<configVars, rotatorVars, pureVars, text, videoUrl, prov,
                   attempts, result, chat>>

\* A frame's editMessageText settles; .catch(() => {}) swallows a failure.
\* The 400 ms timer is started.
FrameEditDone(h, ok) ==
    /\ phase = "running"
    /\ pc[h] = "frame_edit"
    /\ swallowed' = [swallowed EXCEPT ![h] = @ \/ ~ok]
    /\ pc' = [pc EXCEPT ![h] = "frame_delay"]
    /\ UNCHANGED <<configVars, rotatorVars, pureVars, text, frame, videoUrl,
                   prov, attempts, result, status, chat, escaped>>

\* The argument of the handler's call fetchViaProviders(text).
FetchArgument(h) == text[h]

\* The timer fires: the next frame's edit is issued, or simulatedProgress
\* returns and the handler calls fetchViaProviders(text), which runs up to
\* the first provider's request.
FrameDelayDone(h) ==
    /\ phase = "running"
    /\ UNCHANGED swallowed
    /\ pc[h] = "frame_delay"
    /\ IF frame[h] < FRAMES
       THEN /\ frame' = [frame EXCEPT ![h] = @ + 1]
            /\ pc' = [pc EXCEPT ![h] = "frame_edit"]
            /\ UNCHANGED <<rotatorVars, videoUrl, prov, attempts, result>>
       ELSE /\ videoUrl' = [videoUrl EXCEPT ![h] = FetchArgument(h)]
            /\ StartProvider(h, 1, FetchArgument(h), <<>>)
            /\ UNCHANGED frame
    /\ UNCHANGED <<configVars, pureVars, text, status, chat, escaped>>

\* The 'All providers failed' edit settles: the handler returns, or the
\* failure is thrown into the catch block.
FailEditDone(h, ok) ==
    /\ phase = "running"
    /\ UNCHANGED swallowed
    /\ pc[h] = "fail_edit"
    /\ IF ok
       THEN /\ status' = [status EXCEPT ![h] = ALL_FAILED]
            /\ pc' = [pc EXCEPT ![h] = "done"]
       ELSE /\ HandlerCatch(h)
            /\ UNCHANGED status
    /\ UNCHANGED <<configVars, rotatorVars, pureVars, text, frame, videoUrl,
                   prov, attempts, result, chat, escaped>>

\* The 'Sending your video' edit settles: replyWithVideo is issued, or the
\* failure is thrown into the catch block.
SendingEditDone(h, ok) ==
    /\ phase = "running"
    /\ UNCHANGED swallowed
    /\ pc[h] = "sending_edit"
    /\ IF ok
       THEN /\ status' = [status EXCEPT ![h] = SENDING]
            /\ pc' = [pc EXCEPT ![h] = "video"]
       ELSE /\ HandlerCatch(h)
            /\ UNCHANGED status
    /\ UNCHANGED <<configVars, rotatorVars, pureVars, text, frame, videoUrl,
                   prov, attempts, result, chat, escaped>>

\* replyWithVideo settles: the video is delivered and the handler returns,
\* or the failure is thrown into the catch block.
VideoDone(h, ok) ==
    /\ phase = "running"
    /\ UNCHANGED swallowed
    /\ pc[h] = "video"
    /\ IF ok
       THEN /\ chat' = [chat EXCEPT ![h] = Append(@, VideoMsg(result[h].value))]
            /\ pc' = [pc EXCEPT ![h] = "done"]
       ELSE /\ HandlerCatch(h)
            /\ UNCHANGED chat
    /\ UNCHANGED <<configVars, rotatorVars, pureVars, text, frame, videoUrl,
                   prov, attempts, result, status, escaped>>

\* The 'Error. Try again.' edit of the catch block settles; its failure
\* rejects the handler's promise.
ErrorEditDone(h, ok) ==
    /\ phase = "running"
    /\ UNCHANGED swallowed
    /\ pc[h] = "error_edit"
    /\ status' = [status EXCEPT ![h] = IF ok THEN ERROR_TEXT ELSE @]
    /\ escaped' = [escaped EXCEPT ![h] = ~ok]
    /\ pc' = [pc EXCEPT ![h] = "done"]
    /\ UNCHANGED <<configVars, rotatorVars, pureVars, text, frame, videoUrl,
                   prov, attempts, result, chat>>

Next ==
    \/ \E h \in Handlers, t \in InboundTexts : OnText(h, t)
    \/ \E h \in Handlers, ok \in BOOLEAN : WarnDone(h, ok)
    \/ \E h \in Handlers, ok \in BOOLEAN : LoadingDone(h, ok)
    \/ \E h \in Handlers, ok \in BOOLEAN : FrameEditDone(h, ok)
    \/ \E h \in Handlers : FrameDelayDone(h)
    \/ \E h \in Handlers, r \in Responses : HttpDone(h, r)
    \/ \E h \in Handlers, ok \in BOOLEAN : FailEditDone(h, ok)
    \/ \E h \in Handlers, ok \in BOOLEAN : SendingEditDone(h, ok)
    \/ \E h \in Handlers, ok \in BOOLEAN : VideoDone(h, ok)
    \/ \E h \in Handlers, ok \in BOOLEAN : ErrorEditDone(h, ok)

Spec == Init /\ [][Next]_vars

\* ------------------------------------------------- sequential rotator runs

\* One of a run of strictly sequential calls of getNextKey().
RotatorCall ==
    /\ phase = "running"
    /\ Len(drawn) < MaxCalls
    /\ getNextKey
    /\ UNCHANGED <<configVars, handlerVars, pureVars>>

InitRotator ==
    /\ \E tok \in Tokens, url \in BaseUrls, raw \in RawLists(MaxPool) :
           Startup(tok, url, raw)
    /\ arg = <<>>
    /\ ret = NotCalled

NextRotator == RotatorCall

SpecRotator == InitRotator /\ [][NextRotator]_vars

\* ------------------------------------------------------------ validator runs

Schemes == {"http://", "https://", "HTTPS://", "ftp://"}
SubdomainRuns ==
    {<<>>, <<"www.">>, <<"m.">>, <<"vm.">>, <<"WWW.">>, <<"www.", "m.">>,
     <<"www.", "vm.">>, <<"m.", "vm.">>, <<"www.", "m.", "vm.">>, <<"evil">>,
     <<"vm.", "m.">>}
Domains == {<<"tiktok.com">>, <<"TikTok.com">>, <<"tiktok.com", ".evil.net">>}
Paths == {<<>>, <<"/">>, <<"/", "@x/video/1">>}
Prefixes == {<<>>, <<"check", " ">>, <<"evil">>}
Suffixes == {<<>>, <<" ", "now">>, <<" ", "https://", "tiktok.com", "/", "b">>}

\* The texts the validator is run on: a link-like run of tokens, with text
\* before it and text or another link after it.
ValidatorTexts ==
    {pre \o <<sch>> \o sub \o dom \o path \o suf :
        pre \in Prefixes, sch \in Schemes, sub \in SubdomainRuns,
        dom \in Domains, path \in Paths, suf \in Suffixes}

\* A run of isTikTokUrl(arg).
CallIsTikTokUrl ==
    /\ ~ret.done
    /\ ret' = [done |-> TRUE, value |-> isTikTokUrl(arg)]
    /\ UNCHANGED <<configVars, rotatorVars, handlerVars, arg>>

InitValidator ==
    /\ Startup("123:abc", "https://app.example", <<"k1">>)
    /\ arg \in ValidatorTexts
    /\ ret = NotCalled

NextValidator == CallIsTikTokUrl

SpecValidator == InitValidator /\ [][NextValidator]_vars

\* ------------------------------------------------------------------- claims

\* C1: with a fresh cursor, N strictly sequential calls of getNextKey return
\* the N credentials of the pool, each once and in pool order, and call N + 1
\* returns the first credential again.
RotatorVisitsPoolInOrder ==
    phase = "running" =>
        LET N == Len(RAPIDAPI_KEYS)
        IN  \A k \in 1..Len(drawn) :
                /\ k <= N => drawn[k] = RAPIDAPI_KEYS[k]
                /\ k = N + 1 => drawn[k] = RAPIDAPI_KEYS[1]

\* C1 witness: a pool of two different credentials or more has been run
\* through and the call after the last has been made.
RotatorWrapped ==
    /\ phase = "running"
    /\ Len(RAPIDAPI_KEYS) >= 2
    /\ RAPIDAPI_KEYS[1] # RAPIDAPI_KEYS[2]
    /\ Len(drawn) = Len(RAPIDAPI_KEYS) + 1

\* The whole of u matches TIKTOK_REGEX.
MatchesPattern(u) ==
    /\ u # <<>>
    /\ Lower(u[1]) \in {"http://", "https://"}
    /\ LET d == AfterSubs(u, 2)
       IN  /\ d + 2 <= Len(u)
           /\ Lower(u[d]) = "tiktok.com"
           /\ u[d + 1] = "/"
           /\ \A k \in (d + 2)..Len(u) : u[k] # Space

\* The text has a substring that matches the link pattern and whose parsed
\* hostname is one of the four allowed ones.
ContainsSupportedLink(t) ==
    \E i \in 1..Len(t), j \in 1..Len(t) :
        /\ i <= j
        /\ MatchesPattern(SubSeq(t, i, j))
        /\ ~URLParse(SubSeq(t, i, j)).throws
        /\ URLParse(SubSeq(t, i, j)).hostname \in ALLOWED_DOMAINS

\* C5: isTikTokUrl(text) is true if and only if the text contains a substring
\* that matches the link pattern and whose hostname is allowed, also when only
\* a later match of several has an allowed hostname.
ValidatorIffContainsSupportedLink ==
    ret.done => (ret.value <=> ContainsSupportedLink(arg))

\* ---------------------------------------------- claims on the handler runs

\* The normalized output of extract for the attempt's provider and response.
ExtractOf(a) ==
    IF a.provider = API_PROVIDERS[1].name THEN extract1(a.resp.data)
    ELSE extract2(a.resp.data)

\* The attempt's HTTP call resolved and its extract gave a video URL.
Succeeded(a) ==
    /\ a.resp.settled
    /\ ~a.resp.threw
    /\ ~ExtractOf(a).isNull
    /\ Truthy(ExtractOf(a).videoUrl)

\* The attempt's HTTP call threw or its extract gave nothing.
Failed(a) == a.resp.settled /\ ~Succeeded(a)

\* fetchViaProviders has settled for the handler.
Resolved(h) == result[h].state # "none"

RECURSIVE TotalAttempts(_)
\* The number of attempts of the handlers of S together.
TotalAttempts(S) ==
    IF S = {} THEN 0
    ELSE LET h == CHOOSE x \in S : TRUE
         IN  Len(attempts[h]) + TotalAttempts(S \ {h})

\* C2: when provider 1 answers and its extract returns null and provider 2's
\* extract returns a valid tuple, resolve returns ok:true with provider 2's
\* name, and provider 1's request was issued before provider 2's; the
\* requests of every call follow the registry order.
FallbackInRegistryOrder ==
    \A h \in Handlers :
        /\ \A k \in 1..Len(attempts[h]) :
               /\ k <= Len(API_PROVIDERS)
               /\ attempts[h][k].provider = API_PROVIDERS[k].name
               /\ k > 1 => attempts[h][k - 1].idx < attempts[h][k].idx
        /\ (/\ Resolved(h)
            /\ ~attempts[h][1].resp.threw
            /\ extract1(attempts[h][1].resp.data).isNull)
           => /\ Len(attempts[h]) = 2
              /\ attempts[h][2].resp.settled
              /\ (/\ ~attempts[h][2].resp.threw
                  /\ ~extract2(attempts[h][2].resp.data).isNull)
                 => result[h] =
                        Returned(Success(API_PROVIDERS[2].name,
                                         extract2(attempts[h][2].resp.data)))

\* C2 witness: provider 1 answered a body its extract finds nothing in, and
\* resolve returned provider 2's result.
FellBackToSecond ==
    \E h \in Handlers :
        /\ Resolved(h)
        /\ result[h].value.ok
        /\ result[h].value.provider = "RapidAPI-2"
        /\ ~attempts[h][1].resp.threw
        /\ extract1(attempts[h][1].resp.data).isNull

\* C3: no error of a provider leaves resolve, and when every provider's HTTP
\* call throws, resolve returns {ok:false} after trying them all.
AllThrowReturnsNotOk ==
    \A h \in Handlers :
        /\ result[h].state # "threw"
        /\ (/\ pc[h] \notin {"idle", "warn", "loading", "frame_edit",
                             "frame_delay", "http"}
            /\ attempts[h] # <<>>
            /\ \A k \in 1..Len(attempts[h]) : attempts[h][k].resp = Threw)
           => /\ result[h] = Returned(Fail)
              /\ Len(attempts[h]) = Len(API_PROVIDERS)

\* C3 witness: both HTTP calls of a resolve threw and it has returned.
AllProvidersThrew ==
    \E h \in Handlers :
        /\ Resolved(h)
        /\ Len(attempts[h]) = 2
        /\ \A k \in 1..2 : attempts[h][k].resp = Threw

\* C4: an attempt that succeeds is the last attempt of its call: resolve
\* returns that provider's result and no later provider is attempted (no
\* request and no credential draw: every draw belongs to an attempt). The
\* provider returned is the earliest whose attempt succeeded.
FirstSuccessWins ==
    /\ keyIndex = TotalAttempts(Handlers)
    /\ \A h \in Handlers :
           /\ \A k \in 1..Len(attempts[h]) :
                  Succeeded(attempts[h][k])
                  => /\ k = Len(attempts[h])
                     /\ result[h] =
                            Returned(Success(attempts[h][k].provider,
                                             ExtractOf(attempts[h][k])))
           /\ (Resolved(h) /\ result[h].value.ok)
              => /\ Succeeded(attempts[h][Len(attempts[h])])
                 /\ result[h].value.provider =
                        attempts[h][Len(attempts[h])].provider
                 /\ \A k \in 1..(Len(attempts[h]) - 1) : Failed(attempts[h][k])

\* C4 witness: the first provider succeeded and the handler has finished
\* without a request to the second one.
FirstProviderWon ==
    \E h \in Handlers :
        /\ pc[h] = "done"
        /\ result[h].value.ok
        /\ result[h].value.provider = "RapidAPI-1"
        /\ Len(attempts[h]) = 1

\* C6: 'All providers failed' is shown (or about to be shown) only after
\* every provider of the registry was attempted and failed in that call; a
\* provider's error is never thrown to the handler; and when a provider
\* succeeded, 'All providers failed' is not shown.
AllFailedOnlyAfterExhaustion ==
    \A h \in Handlers :
        /\ (status[h] = ALL_FAILED \/ pc[h] = "fail_edit")
           => /\ Len(attempts[h]) = Len(API_PROVIDERS)
              /\ \A k \in 1..Len(attempts[h]) : Failed(attempts[h][k])
        /\ result[h].state # "threw"
        /\ (\E k \in 1..Len(attempts[h]) : Succeeded(attempts[h][k]))
           => /\ status[h] # ALL_FAILED
              /\ pc[h] # "fail_edit"

\* C6 witness: the user is shown 'All providers failed', the second provider
\* having answered an unrecognized body.
AllFailedShown ==
    \E h \in Handlers :
        /\ status[h] = ALL_FAILED
        /\ ~attempts[h][2].resp.threw

\* C7: a failed status edit is swallowed. Whatever a frame edit settles
\* with, the progress goes on to its delay; whatever the 'Sending your video'
\* edit settles with, the handler goes on to send the video; whatever the
\* 'All providers failed' edit settles with, the handler returns; and no
\* failed failure edit rejects the handler's promise.
RenderingErrorsSwallowed ==
    [][\A h \in Handlers :
           /\ pc[h] = "frame_edit" => pc'[h] \in {"frame_edit", "frame_delay"}
           /\ pc[h] = "sending_edit" => pc'[h] \in {"sending_edit", "video"}
           /\ pc[h] = "fail_edit" => pc'[h] \in {"fail_edit", "done"}
           /\ pc[h] \in {"fail_edit", "error_edit"} => ~escaped'[h]]_vars

\* C8: a handler whose text is not a supported link only issues the warning:
\* no loading message, no frame, no credential draw, no HTTP call.
UnsupportedTextOnlyWarned ==
    /\ keyIndex = TotalAttempts(Handlers)
    /\ \A h \in Handlers :
           (pc[h] # "idle" /\ ~isTikTokUrl(text[h]))
           => /\ pc[h] \in {"warn", "done"}
              /\ status[h] = NoStatus
              /\ frame[h] = 0
              /\ attempts[h] = <<>>
              /\ ~Resolved(h)
              /\ chat[h] \in {<<>>, <<TextMsg(WARNING)>>}

\* C8 witness: the warning was delivered for an unsupported text while the
\* other handler has drawn a credential.
WarnedWhileOtherDraws ==
    \E h \in Handlers :
        /\ ~isTikTokUrl(text[h])
        /\ chat[h] = <<TextMsg(WARNING)>>
        /\ keyIndex > 0

\* C9: the query parameter of every attempt carries the link the validator
\* matched and host-checked, and no text around it.
ParamIsTheMatchedLink ==
    \A h \in Handlers :
        \A k \in 1..Len(attempts[h]) :
            attempts[h][k].param = RegexMatch(text[h])

EndToEndText == <<"https://", "vm.", "tiktok.com", "/", "ZMabc123/">>
EndToEndPayload ==
    Payload("http://x/video.mp4", Absent, Absent, "T", Absent, "A", Absent)
EndToEndResult ==
    [ok |-> TRUE, provider |-> "RapidAPI-1", videoUrl |-> "http://x/video.mp4",
     title |-> "T", author |-> "A"]

\* C10: for the text https://vm.tiktok.com/ZMabc123/ the validator accepts,
\* and when the first provider answers {data:{play, title, author:{nickname}}}
\* resolve returns exactly {ok:true, provider:"RapidAPI-1", videoUrl, title,
\* author} of that body, the second provider never attempted.
EndToEnd ==
    \A h \in Handlers :
        text[h] = EndToEndText
        => /\ pc[h] # "warn"
           /\ chat[h] # <<TextMsg(WARNING)>>
           /\ (/\ attempts[h] # <<>>
               /\ attempts[h][1].resp = Responded(EndToEndPayload))
              => /\ result[h] = Returned(EndToEndResult)
                 /\ Len(attempts[h]) = 1
                 /\ attempts[h][1].param = EndToEndText

\* C10 witness: the handler of that text got that body from the first
\* provider and has finished.
EndToEndDone ==
    \E h \in Handlers :
        /\ text[h] = EndToEndText
        /\ pc[h] = "done"
        /\ attempts[h] # <<>>
        /\ attempts[h][1].resp = Responded(EndToEndPayload)
        /\ result[h] = Returned(EndToEndResult)

\* --------------------------------------------------------------- extract runs

\* A field of a payload is missing, empty or set.
FieldValues(v) == {Absent, "", v}

\* The payloads extract is run on: every combination of the probed fields.
ExtractPayloads ==
    {Payload(a, b, c, d, e, f, g) :
        a \in FieldValues("http://a/play.mp4"),
        b \in FieldValues("http://b/wmplay.mp4"),
        c \in FieldValues("http://c/top.mp4"),
        d \in FieldValues("Title"), e \in FieldValues("TopTitle"),
        f \in FieldValues("Nick"), g \in FieldValues("TopAuthor")}

\* A bug: extract draws a credential, as buildHeaders does.
CallExtractDrawing(p) ==
    /\ Len(ret) < MaxExtractCalls
    /\ getNextKey
    /\ ret' = Append(ret, [provider |-> p, out |-> Extract(p, arg)])
    /\ UNCHANGED <<configVars, handlerVars, arg>>

\* A run of the p-th provider's extract on the payload arg; ret is the
\* history of the calls and their outputs.
CallExtract(p) ==
    /\ Len(ret) < MaxExtractCalls
    /\ ret' = Append(ret, [provider |-> p, out |-> Extract(p, arg)])
    /\ UNCHANGED <<configVars, rotatorVars, handlerVars, arg>>

InitExtract ==
    /\ Startup("123:abc", "https://app.example", <<"k1", "k2 ">>)
    /\ arg \in ExtractPayloads
    /\ ret = <<>>

NextExtract == \E p \in 1..Len(API_PROVIDERS) : CallExtract(p)

SpecExtract == InitExtract /\ [][NextExtract]_vars

InPool(key) == \E i \in 1..Len(RAPIDAPI_KEYS) : RAPIDAPI_KEYS[i] = key

\* C12: a message is handled only when the bot credential, the webhook base
\* URL and a non-empty credential pool are configured (else the process
\* aborted at startup and every handler stays idle), and every credential
\* drawn is a key of the pool, never an undefined one.
ConfiguredBeforeHandling ==
    /\ phase \in {"running", "aborted"}
    /\ phase = "running"
       <=> (Truthy(BOT_TOKEN) /\ Truthy(WEBHOOK_URL) /\ Len(RAPIDAPI_KEYS) >= 1)
    /\ phase = "aborted"
       => /\ keyIndex = 0
          /\ \A h \in Handlers : pc[h] = "idle"
    /\ \A k \in 1..Len(drawn) : Truthy(drawn[k]) /\ InPool(drawn[k])
    /\ \A h \in Handlers :
           \A k \in 1..Len(attempts[h]) :
               Truthy(attempts[h][k].key) /\ InPool(attempts[h][k].key)

\* C12 witness: a configured process has drawn every key of its pool and one
\* more for the requests of its handlers.
DrewFromConfiguredPool ==
    /\ phase = "running"
    /\ Len(drawn) > Len(RAPIDAPI_KEYS)
    /\ \E h \in Handlers : pc[h] = "http"

\* ------------------------------------------- two messages, draws interleaved

\* A supported link and an unsupported text.
DrawTexts ==
    {<<"https://", "vm.", "tiktok.com", "/", "ZMabc123/">>,
     <<"see", " ", "https://", "evil", "tiktok.com", "/", "video">>}

\* The handling of two overlapping messages in runs whose frame edits all
\* succeed: every interleaving of the two handlers' draws and HTTP calls.
NextDraws ==
    \/ \E h \in Handlers, t \in DrawTexts : OnText(h, t)
    \/ \E h \in Handlers, ok \in BOOLEAN : WarnDone(h, ok)
    \/ \E h \in Handlers, ok \in BOOLEAN : LoadingDone(h, ok)
    \/ \E h \in Handlers : FrameEditDone(h, TRUE)
    \/ \E h \in Handlers : FrameDelayDone(h)
    \/ \E h \in Handlers, r \in Responses : HttpDone(h, r)
    \/ \E h \in Handlers, ok \in BOOLEAN : FailEditDone(h, ok)
    \/ \E h \in Handlers, ok \in BOOLEAN : SendingEditDone(h, ok)
    \/ \E h \in Handlers, ok \in BOOLEAN : VideoDone(h, ok)
    \/ \E h \in Handlers, ok \in BOOLEAN : ErrorEditDone(h, ok)

SpecDraws == Init /\ [][NextDraws]_vars

\* C13: every call of resolve starts at the first provider of the registry
\* and attempts each provider at most once, whatever earlier calls ended
\* with: nothing but the cursor is carried from one call to the next.
ResolveStartsFreshNoRetry ==
    \A h \in Handlers :
        /\ prov[h] = Len(attempts[h])
        /\ Len(attempts[h]) <= Len(API_PROVIDERS)
        /\ attempts[h] # <<>>
           => attempts[h][1].provider = API_PROVIDERS[1].name
        /\ \A j \in 1..Len(attempts[h]), k \in 1..Len(attempts[h]) :
               j # k => attempts[h][j].provider # attempts[h][k].provider
        /\ \A k \in 2..Len(attempts[h]) :
               /\ Failed(attempts[h][k - 1])
               /\ attempts[h][k].provider = API_PROVIDERS[k].name

\* C13 witness: a call that began after another call had failed on every
\* provider is at its first provider.
FreshAfterFailedCall ==
    \E h \in Handlers, g \in Handlers :
        /\ result[g] = Returned(Fail)
        /\ pc[h] = "http"
        /\ Len(attempts[h]) = 1
        /\ attempts[h][1].idx > attempts[g][2].idx

\* The draws of the other handlers that fall between the first and the last
\* draw of the handler's call.
DrawsBetween(h) ==
    {<<g, k>> \in (Handlers \ {h}) \X (1..Len(API_PROVIDERS)) :
        /\ k <= Len(attempts[g])
        /\ attempts[g][k].idx > attempts[h][1].idx
        /\ attempts[g][k].idx < attempts[h][Len(attempts[h])].idx}

\* C14 as stated: when a call of resolve returns, the cursor stands exactly
\* the number of the call's attempts above where it stood when the call began.
CursorAdvancesByOwnAttempts ==
    [][\A h \in Handlers :
          (result[h].state = "none" /\ result'[h].state = "returned")
          => keyIndex' - attempts'[h][1].idx = Len(attempts'[h])]_vars

\* C14: every attempt draws exactly one credential of its own before its
\* HTTP call is issued, whether the call then throws, yields nothing or
\* succeeds; a call makes between 1 and registry-size draws, and from its
\* first to its last draw the cursor moves by its own draws plus the draws
\* other handlers made in between.
OneDrawPerAttempt ==
    /\ keyIndex = TotalAttempts(Handlers)
    /\ Len(drawn) = keyIndex
    /\ \A h \in Handlers :
        /\ Resolved(h) => Len(attempts[h]) \in 1..Len(API_PROVIDERS)
        /\ \A k \in 1..Len(attempts[h]) :
               /\ attempts[h][k].idx < keyIndex
               /\ drawn[attempts[h][k].idx + 1] = attempts[h][k].key
               /\ \A j \in 1..(k - 1) :
                      attempts[h][j].idx < attempts[h][k].idx
               /\ \A g \in Handlers \ {h} : \A j \in 1..Len(attempts[g]) :
                      attempts[g][j].idx # attempts[h][k].idx
        /\ attempts[h] # <<>>
           => attempts[h][Len(attempts[h])].idx - attempts[h][1].idx + 1
              = Len(attempts[h]) + Cardinality(DrawsBetween(h))

\* C14 witness: a call returned after two attempts, the first of which
\* threw, and another handler drew between the two.
TwoDrawsWithOneBetween ==
    \E h \in Handlers :
        /\ Resolved(h)
        /\ Len(attempts[h]) = 2
        /\ attempts[h][1].resp.threw
        /\ Cardinality(DrawsBetween(h)) = 1

\* C15: the cursor never decreases and is never reset; a step changes it
\* only by drawing a credential, which adds exactly one and begins one
\* attempt; validation, progress rendering, extract and result rendering
\* leave it as it is.
CursorOnlyMovesByDraw ==
    [][/\ keyIndex' \in {keyIndex, keyIndex + 1}
       /\ keyIndex' = keyIndex + 1
          <=> \E h \in Handlers :
                 /\ Len(attempts'[h]) = Len(attempts[h]) + 1
                 /\ pc'[h] = "http"
       /\ keyIndex' = keyIndex + 1 => drawn' = Append(drawn, CurrentKey)
       /\ keyIndex' = keyIndex => drawn' = drawn
       /\ \A h \in Handlers :
              pc[h] \in {"idle", "warn", "loading", "frame_edit", "fail_edit",
                         "sending_edit", "video", "error_edit", "done"}
              /\ pc'[h] # pc[h]
              => keyIndex' = keyIndex]_vars

\* C15 witness: two messages were handled to the end, one to a sent video
\* and one to 'All providers failed', and the cursor stands at the number of
\* draws made.
CursorAfterTwoMessages ==
    /\ \A h \in Handlers : pc[h] = "done"
    /\ \E h \in Handlers : status[h] = ALL_FAILED
    /\ \E h \in Handlers : result[h].value.ok
    /\ keyIndex = 3

\* The pool entry that follows key in the rotation.
NextInPool(key) ==
    LET i == CHOOSE j \in 1..Len(RAPIDAPI_KEYS) : RAPIDAPI_KEYS[j] = key
    IN  RAPIDAPI_KEYS[(i % Len(RAPIDAPI_KEYS)) + 1]

\* C16: the draws of concurrently handled messages interleave on the one
\* cursor: the credential of provider 2 follows the credential of provider 1
\* in the pool exactly when no other handler drew between the two draws of
\* the call, and an execution in which another handler did draw between them
\* is reachable.
DrawsInterleaveOnSharedCursor ==
    \A h \in Handlers :
        /\ \A k \in 1..Len(attempts[h]) :
               attempts[h][k].key =
                   RAPIDAPI_KEYS[(attempts[h][k].idx % Len(RAPIDAPI_KEYS)) + 1]
        /\ Len(attempts[h]) = 2
           => /\ attempts[h][2].idx
                 = attempts[h][1].idx + 1 + Cardinality(DrawsBetween(h))
              /\ DrawsBetween(h) = {}
                 <=> attempts[h][2].key = NextInPool(attempts[h][1].key)

\* C16 witness: between the draw for provider 1 and the draw for provider 2
\* of one call another handler drew, and the call's two credentials are not
\* consecutive pool entries.
InterleavedDraws ==
    \E h \in Handlers :
        /\ Len(attempts[h]) = 2
        /\ \E g \in Handlers \ {h} : \E k \in 1..Len(attempts[g]) :
               /\ attempts[h][1].idx < attempts[g][k].idx
               /\ attempts[g][k].idx < attempts[h][2].idx
        /\ attempts[h][2].key # NextInPool(attempts[h][1].key)

\* ------------------------------------------- one message, many payloads

\* Response bodies with and without each of the fields extract reads:
\* missing, empty and present titles and authors, and video fields in each
\* of the three places.
SoloPayloads ==
    {Payload("http://x/video.mp4", Absent, Absent, "T", Absent, "A", Absent),
     Payload("http://x/video.mp4", Absent, Absent, Absent, Absent, Absent, Absent),
     Payload("http://x/video.mp4", Absent, Absent, "", "TT", "", "B"),
     Payload(Absent, "http://x/wm.mp4", Absent, Absent, "TT", Absent, "B"),
     Payload(Absent, "http://x/wm.mp4", Absent, "", "", Absent, Absent),
     Payload(Absent, Absent, "http://y/top.mp4", Absent, Absent, Absent, "B"),
     Payload("", "", "http://y/top.mp4", "T", Absent, Absent, ""),
     Payload("", "", "", "T", "TT", "A", "B"),
     Payload(Absent, Absent, Absent, "T", Absent, Absent, Absent),
     NoData}

SoloResponses == {Threw} \cup {Responded(d) : d \in SoloPayloads}

\* The handling of a single inbound message.
NextSolo ==
    \/ \E t \in InboundTexts : OnText("m1", t)
    \/ \E ok \in BOOLEAN : WarnDone("m1", ok)
    \/ \E ok \in BOOLEAN : LoadingDone("m1", ok)
    \/ \E ok \in BOOLEAN : FrameEditDone("m1", ok)
    \/ FrameDelayDone("m1")
    \/ \E r \in SoloResponses : HttpDone("m1", r)
    \/ \E ok \in BOOLEAN : FailEditDone("m1", ok)
    \/ \E ok \in BOOLEAN : SendingEditDone("m1", ok)
    \/ \E ok \in BOOLEAN : VideoDone("m1", ok)
    \/ \E ok \in BOOLEAN : ErrorEditDone("m1", ok)

SpecSolo == Init /\ [][NextSolo]_vars

\* The fields of a response body in which the p-th provider's extract looks
\* for the video, the title and the author.
VideoFields(p, d) == IF p = 1 THEN {d.dplay} ELSE {d.dplay, d.dwmplay, d.play}
TitleFields(p, d) == IF p = 1 THEN {d.dtitle} ELSE {d.dtitle, d.title}
AuthorFields(p, d) == IF p = 1 THEN {d.dnick} ELSE {d.dnick, d.author}
NoneUsable(F) == \A v \in F : ~Truthy(v)

\* C17: a successful result never has an empty title or author: without a
\* title in the payload the title is "TikTok Video", without an author the
\* author is "Unknown"; a response without a usable video field is no error:
\* the orchestrator goes on to the next provider, or returns ok:false after
\* the last.
DefaultsAndNullContinue ==
    \A h \in Handlers :
        /\ result[h].state # "threw"
        /\ result[h].value.ok
           => LET k == Len(attempts[h])
                  d == attempts[h][k].resp.data
                  v == result[h].value
              IN  /\ ~NoneUsable(VideoFields(k, d))
                  /\ Truthy(v.videoUrl) /\ Truthy(v.title) /\ Truthy(v.author)
                  /\ v.title \in TitleFields(k, d) \cup {"TikTok Video"}
                  /\ v.author \in AuthorFields(k, d) \cup {"Unknown"}
                  /\ NoneUsable(TitleFields(k, d)) => v.title = "TikTok Video"
                  /\ NoneUsable(AuthorFields(k, d)) => v.author = "Unknown"
        /\ \A k \in 1..Len(attempts[h]) :
               LET a == attempts[h][k]
               IN  (a.resp.settled /\ ~a.resp.threw
                    /\ NoneUsable(VideoFields(k, a.resp.data)))
                   => /\ pc[h] # "error_edit" \/ Resolved(h)
                      /\ IF k < Len(API_PROVIDERS)
                         THEN Len(attempts[h]) > k
                         ELSE result[h] = Returned(Fail)

\* C17 witness: the first provider answered without a usable video field,
\* the second answered with a video and neither title nor author, and the
\* call returned with both fallback literals.
DefaultedAfterNull ==
    /\ Len(attempts["m1"]) = 2
    /\ ~attempts["m1"][1].resp.threw
    /\ result["m1"].value.ok
    /\ NoneUsable(TitleFields(2, attempts["m1"][2].resp.data))
    /\ NoneUsable(AuthorFields(2, attempts["m1"][2].resp.data))
    /\ result["m1"].value.title = "TikTok Video"
    /\ result["m1"].value.author = "Unknown"

\* The cursor values the attempts of all handlers observed.
ObservedCursors ==
    {attempts[h][k].idx : <<h, k>> \in
        {x \in Handlers \X (1..Len(API_PROVIDERS)) : x[2] <= Len(attempts[x[1]])}}

\* C18: a draw reads and advances the cursor in one step, so under every
\* interleaving of the handlers no two draws observe the same cursor value,
\* the k-th draw of the process returns pool[(k-1) mod N], and every N
\* consecutive draws of the process contain each credential exactly once.
DrawsAreAtomic ==
    LET N == Len(RAPIDAPI_KEYS)
    IN  /\ Cardinality(ObservedCursors) = TotalAttempts(Handlers)
        /\ ObservedCursors = 0..(Len(drawn) - 1)
        /\ \A k \in 1..Len(drawn) : drawn[k] = RAPIDAPI_KEYS[((k - 1) % N) + 1]
        /\ \A i \in 1..(Len(drawn) - N + 1) : \A p \in 1..N :
               Cardinality({j \in i..(i + N - 1) :
                               drawn[j] = RAPIDAPI_KEYS[p]}) = 1

\* C18 witness: two handlers drew in turns, four draws in all, so that a
\* window of N draws holds draws of both.
AlternatingDraws ==
    /\ Len(drawn) = Len(RAPIDAPI_KEYS) + 1
    /\ Len(attempts["m1"]) = 2 /\ Len(attempts["m2"]) = 2
    /\ attempts["m1"][1].idx = 0 /\ attempts["m2"][1].idx = 1
    /\ attempts["m1"][2].idx = 2 /\ attempts["m2"][2].idx = 3

\* The videos delivered to the handler's chat.
VideosSent(h) == {i \in 1..Len(chat[h]) : chat[h][i].kind = "video"}

\* A video is sent only after fetchViaProviders returned ok:true with a
\* video URL for the same message, and carries that result's videoUrl and
\* provider; after ok:false neither the 'Sending your video' edit nor the
\* video is issued; and the first credential is drawn only after the five
\* frame edits were issued, one after the other, and settled.
VideoOnlyAfterOk ==
    \A h \in Handlers :
        /\ (pc[h] \in {"sending_edit", "video"} \/ status[h] = SENDING
            \/ VideosSent(h) # {})
           => /\ result[h].state = "returned"
              /\ result[h].value.ok
              /\ Truthy(result[h].value.videoUrl)
        /\ \A i \in VideosSent(h) :
               LET a == attempts[h][Len(attempts[h])]
               IN  /\ chat[h][i] = VideoMsg(result[h].value)
                   /\ chat[h][i].body[1] = a.resp.data.dplay
                      \/ (a.provider = API_PROVIDERS[2].name
                          /\ chat[h][i].body[1] \in {a.resp.data.dwmplay,
                                                     a.resp.data.play})
                   /\ chat[h][i].body[4] = a.provider
                   /\ pc[h] = "done"
        /\ (Resolved(h) /\ ~result[h].value.ok)
           => /\ VideosSent(h) = {}
              /\ status[h] # SENDING
              /\ pc[h] \notin {"sending_edit", "video"}
        /\ frame[h] \in 0..FRAMES
        /\ attempts[h] # <<>> => frame[h] = FRAMES
        /\ pc[h] \in {"frame_edit", "frame_delay"}
           => frame[h] >= 1 /\ attempts[h] = <<>> /\ ~Resolved(h)

\* C19: a video is sent only after resolve returned ok:true for the same
\* message, with that result's videoUrl and provider; when resolve returned
\* ok:false the handler shows 'All providers failed' and nothing else, never
\* the video or 'Sending your video'; the fan-out begins only after the five
\* progress frames.
FailureShownAsAllFailed ==
    /\ VideoOnlyAfterOk
    /\ \A h \in Handlers :
           (Resolved(h) /\ ~result[h].value.ok)
           => /\ pc[h] \in {"fail_edit", "done"}
              /\ pc[h] = "done" => status[h] = ALL_FAILED

\* ------------------------------------------------ fair handling of messages

\* A step of the handler h after its message has arrived: one of its pending
\* awaits settles.
HandlerStep(h) ==
    \/ \E ok \in BOOLEAN : WarnDone(h, ok)
    \/ \E ok \in BOOLEAN : LoadingDone(h, ok)
    \/ \E ok \in BOOLEAN : FrameEditDone(h, ok)
    \/ FrameDelayDone(h)
    \/ \E r \in Responses : HttpDone(h, r)
    \/ \E ok \in BOOLEAN : FailEditDone(h, ok)
    \/ \E ok \in BOOLEAN : SendingEditDone(h, ok)
    \/ \E ok \in BOOLEAN : VideoDone(h, ok)
    \/ \E ok \in BOOLEAN : ErrorEditDone(h, ok)

\* Every messaging call, timer and HTTP call (each with its timeout) settles
\* in the end, and the event loop runs the continuation of a settled await.
SpecLive == Spec /\ \A h \in Handlers : WF_vars(HandlerStep(h))

\* Under that fairness every handler that began returns or rejects.
HandlersTerminate == \A h \in Handlers : (pc[h] # "idle") ~> (pc[h] = "done")

\* The terminal outcomes delivered to the user of the handler's message.
Outcomes(h) ==
    {o \in {"warning", "all failed", "video", "error"} :
        \/ o = "warning" /\ \E i \in 1..Len(chat[h]) : chat[h][i] = TextMsg(WARNING)
        \/ o = "all failed" /\ status[h] = ALL_FAILED
        \/ o = "video" /\ VideosSent(h) # {}
        \/ o = "error" /\ status[h] = ERROR_TEXT}

\* The handler's last call was the warning reply or the 'Error. Try again.'
\* edit, and it failed.
TerminalCallFailed(h) ==
    /\ escaped[h]
    /\ ~isTikTokUrl(text[h]) \/ status[h] # NoStatus

\* C20: a handler that has terminated has produced exactly one terminal
\* outcome among the validation warning, 'All providers failed', the video
\* and 'Error. Try again.': it was delivered, or it was the handler's last
\* call and that call failed.
ExactlyOneTerminalOutcome ==
    \A h \in Handlers :
        pc[h] = "done"
        => \/ Cardinality(Outcomes(h)) = 1
           \/ Outcomes(h) = {} /\ TerminalCallFailed(h)

====
